---------------------------- MODULE Spec2Model ----------------------------
(***************************************************************************)
(* FlirtAnalysis (angr/analyses/flirt.py): selection of FLIRT signatures,  *)
(* the scan of the eligible functions of the knowledge base under each     *)
(* signature, and the naming of the functions the matcher recognises.      *)
(*                                                                         *)
(* Strings (names, architecture names, tokens, byte buffers) are sequences *)
(* of one-character strings, so that lower(), substring search and the     *)
(* hexadecimal format are computed and not assumed.  An address is a pair  *)
(* [hi, lo] standing for hi * 2^16 + lo with lo < 2^16: the code masks     *)
(* addresses with 0xffff_fffe, which is a 32-bit mask, and Python integers *)
(* have no width.                                                          *)
(***************************************************************************)
EXTENDS Integers, Sequences, FiniteSets, TLC

VARIABLES
    arch,                       \* self.project.arch.name
    simos,                      \* self.project.simos.name
    sig,                        \* the argument of FlirtAnalysis.__init__
    FLIRT_SIGNATURES_BY_ARCH,   \* catalog: architecture -> signatures
    STRING_TO_LIBRARIES,        \* catalog: token -> libraries (ordered dict of sets)
    LIBRARY_TO_SIGNATURES,      \* catalog: library -> signatures
    mem_regions,                \* the loaded segments' bytes
    functions,                  \* self.project.kb.functions: address -> Function
    signatures,                 \* self.signatures, or Unset before it is assigned
    pc,                         \* position of the run
    error,                      \* the exception that ended the run, or "none"
    sig_idx,                    \* number of signatures the loop of line 57 has taken
    handle,                     \* the signature files currently open
    todo,                       \* functions the loop of line 81 has not reached yet
    func,                       \* the function handed to nampa.match_function
    matcher,                    \* what the matcher reported for (sig_path, function)
    nhits,                      \* hits the matcher has reported so far
    run,                        \* 1: first run, 2: the run repeated on the same store
    before,                     \* the function store when the current run started
    find_hits_called,           \* whether _find_hits_by_strings ran in this run
    sigfiles,                   \* what opening and parsing each signature file gives
    pos,                        \* hits delivered so far by the current match_function call
    func_bytes,                 \* the memory.load request of line 101 made for func
    prev_signatures             \* self.signatures of the run before, or Unset

vars == <<arch, simos, sig, FLIRT_SIGNATURES_BY_ARCH, STRING_TO_LIBRARIES,
          LIBRARY_TO_SIGNATURES, mem_regions, functions, signatures, pc, error,
          sig_idx, handle, todo, func, matcher, nhits, run, before,
          find_hits_called, sigfiles, pos, func_bytes, prev_signatures>>

---------------------------------------------------------------------------
\* Bounds of the model.

\* Hits the matcher reports in one run, over all its scans.
MaxHits == 2

\* Segment buffers, and catalog tokens, of the selection runs.
MaxRegions == 2
MaxTokens == 2

---------------------------------------------------------------------------
\* Strings.

Unset == "unset"
None == "None"

LowerChar(c) ==
    CASE c = "A" -> "a" [] c = "E" -> "e" [] c = "L" -> "l" [] c = "M" -> "m"
      [] c = "R" -> "r" [] c = "X" -> "x" [] c = "W" -> "w" [] c = "I" -> "i"
      [] c = "N" -> "n" [] c = "U" -> "u"
      [] OTHER -> c

\* str.lower()
Lower(s) == [k \in 1..Len(s) |-> LowerChar(s[k])]

\* str.startswith(p)
StartsWith(s, p) == Len(s) >= Len(p) /\ SubSeq(s, 1, Len(p)) = p

\* bytes.__contains__: exact containment of tok in buf
Contains(buf, tok) ==
    \E k \in 0..(Len(buf) - Len(tok)) : SubSeq(buf, k + 1, k + Len(tok)) = tok

\* archinfo.arch_arm.is_arm_arch, as called at line 55
is_arm_arch(a) ==
    StartsWith(a, <<"A", "R", "M">>) \/ StartsWith(a, <<"A", "A", "r", "c", "h">>)

---------------------------------------------------------------------------
\* Addresses: [hi, lo] is hi * 2^16 + lo, with 0 <= lo < 2^16.

Addr(h, l) == [hi |-> h, lo |-> l]

\* the integer h * 2^16 + l in that form
Norm(h, l) == [hi |-> h + (l \div 65536), lo |-> l % 65536]

\* a + k
AddrPlus(a, k) == Norm(a.hi, a.lo + k)

\* a & 0xffff_fffe
MaskThumb(a) == [hi |-> a.hi % 65536, lo |-> (a.lo \div 2) * 2]

HexDigit(d) ==
    <<"0", "1", "2", "3", "4", "5", "6", "7", "8", "9", "a", "b", "c", "d", "e", "f">>[d + 1]

RECURSIVE HexNat(_)
\* format(n, "x") of a natural number
HexNat(n) == IF n < 16 THEN <<HexDigit(n)>> ELSE HexNat(n \div 16) \o <<HexDigit(n % 16)>>

RECURSIVE Zeros(_)
Zeros(n) == IF n <= 0 THEN <<>> ELSE <<"0">> \o Zeros(n - 1)

\* format(a, "x") of an address: the low word takes 4 digits under a high word
HexAddr(a) ==
    IF a.hi = 0 THEN HexNat(a.lo)
    ELSE HexNat(a.hi) \o Zeros(4 - Len(HexNat(a.lo))) \o HexNat(a.lo)

---------------------------------------------------------------------------
\* Signatures and the catalog.

\* FlirtSignature(arch, platform, sig_name, sig_path, unique_strings)
FlirtSignature(a, p, n, path, u) ==
    [arch |-> a, platform |-> p, sig_name |-> n, sig_path |-> path, unique_strings |-> u]

S_x86 == <<"x", "8", "6">>
S_X86 == <<"X", "8", "6">>
S_armel == <<"a", "r", "m", "e", "l">>
S_ARMEL == <<"A", "R", "M", "E", "L">>
S_linux == <<"l", "i", "n", "u", "x">>
S_Linux == <<"L", "i", "n", "u", "x">>
S_Temporary == <<"T", "e", "m", "p", "o", "r", "a", "r", "y">>
S_zlib == <<"z", "l", "i", "b">>
S_libpng == <<"l", "i", "b", "p", "n", "g">>

ZX == FlirtSignature(S_x86, S_linux, S_zlib, "zlib_x86.sig", None)
ZA == FlirtSignature(S_armel, S_linux, S_zlib, "zlib_arm.sig", None)
PX == FlirtSignature(S_x86, S_linux, S_libpng, "png_x86.sig", None)
PA == FlirtSignature(S_armel, S_linux, S_libpng, "png_arm.sig", None)
PU == FlirtSignature(S_X86, S_linux, S_libpng, "png_X86.sig", None)

T_inf == <<"i", "n", "f">>
T_png == <<"p", "n", "g">>
T_lib == <<"l", "i", "b">>

EmptyDict == [x \in {} |-> x]

\* A dict with a default (defaultdict): the value under k, or the default.
Get(d, k, default) == IF k \in DOMAIN d THEN d[k] ELSE default

\* The catalogs of the model: not loaded; two libraries with their own
\* signatures; two libraries sharing their signatures under a common token.
Catalogs ==
    { [by_arch |-> EmptyDict, strings |-> <<>>, libs |-> EmptyDict],
      [by_arch |-> (S_x86 :> <<ZX, PX>> @@ S_armel :> <<ZA, PA>> @@ S_X86 :> <<PU>>),
       strings |-> << [token |-> T_inf, libs |-> {S_zlib}],
                      [token |-> T_png, libs |-> {S_libpng}] >>,
       libs |-> (S_zlib :> <<ZX, ZA>> @@ S_libpng :> <<PX, PA, PU>>)],
      [by_arch |-> (S_x86 :> <<ZX>> @@ S_armel :> <<ZA>>),
       strings |-> << [token |-> T_lib, libs |-> {S_zlib, S_libpng}] >>,
       libs |-> (S_zlib :> <<ZX, ZA>> @@ S_libpng :> <<ZX, ZA>>)] }

\* The segment buffers of the model.
RegionLists == { << T_inf >>, << <<"l", "i", "b", "p", "n", "g">>, <<"x">> \o T_inf >> }

\* The orders in which a Python set of library names can be iterated: the
\* order follows the hashes of the strings, which an interpreter draws anew
\* each time it starts.
SetOrders == { <<S_zlib, S_libpng>>, <<S_libpng, S_zlib>> }

---------------------------------------------------------------------------
\* _find_hits_by_strings (lines 60-75)

\* Credit without the test of line 64: every token credits its libraries.
CreditAlways(entry, region, order) ==
    SelectSeq(order, LAMBDA lib : lib \in entry.libs)

\* lines 64-66: the libraries credited by one (token, region) pair, in the
\* iteration order of the token's set
Credit(entry, region, order) ==
    IF Contains(region, entry.token)
    THEN SelectSeq(order, LAMBDA lib : lib \in entry.libs)
    ELSE <<>>

RECURSIVE Credits(_, _, _, _)
\* lines 62-66: every increment of library_hits, in the order it happens;
\* k counts the (token, region) pairs taken, tokens outermost
Credits(s2l, regions, order, k) ==
    IF k = 0 THEN <<>>
    ELSE LET m == Len(regions)
         IN  Credits(s2l, regions, order, k - 1)
             \o Credit(s2l[((k - 1) \div m) + 1], regions[((k - 1) % m) + 1], order)

\* library_hits[lib]
HitCount(credits, lib) == Cardinality({k \in 1..Len(credits) : credits[k] = lib})

RECURSIVE KeysOf(_)
\* library_hits.keys(): the libraries in order of first increment
KeysOf(credits) ==
    IF credits = <<>> THEN <<>>
    ELSE LET rest == KeysOf(SubSeq(credits, 1, Len(credits) - 1))
             last == credits[Len(credits)]
         IN  IF \E k \in 1..Len(rest) : rest[k] = last THEN rest ELSE Append(rest, last)

RECURSIVE SortedByHits(_, _)
\* line 69: sorted(keys, key=hits, reverse=True), a stable sort
SortedByHits(keys, credits) ==
    IF keys = <<>> THEN <<>>
    ELSE LET rest == SortedByHits(SubSeq(keys, 1, Len(keys) - 1), credits)
             x == keys[Len(keys)]
             c == HitCount(credits, x)
         IN  SelectSeq(rest, LAMBDA y : HitCount(credits, y) >= c)
             \o <<x>>
             \o SelectSeq(rest, LAMBDA y : HitCount(credits, y) < c)

RECURSIVE SignaturesOfOnce(_, _, _)
\* SignaturesOf leaving out a signature that a later library yields again.
SignaturesOfOnce(libs, l2s, arch_lowercase) ==
    IF libs = <<>> THEN <<>>
    ELSE LET rest == SignaturesOfOnce(Tail(libs), l2s, arch_lowercase)
         IN  SelectSeq(Get(l2s, Head(libs), <<>>),
                       LAMBDA s : s.arch = arch_lowercase
                                  /\ \A k \in DOMAIN rest : rest[k] # s)
             \o rest

RECURSIVE SignaturesOf(_, _, _)
\* lines 72-75: the signatures yielded for the sorted libraries
SignaturesOf(libs, l2s, arch_lowercase) ==
    IF libs = <<>> THEN <<>>
    ELSE SelectSeq(Get(l2s, Head(libs), <<>>), LAMBDA s : s.arch = arch_lowercase)
         \o SignaturesOf(Tail(libs), l2s, arch_lowercase)

find_hits_by_strings(regions, s2l, l2s, archname, order) ==
    LET credits == Credits(s2l, regions, order, Len(s2l) * Len(regions))
        sorted_libraries == SortedByHits(KeysOf(credits), credits)
    IN  SignaturesOf(sorted_libraries, l2s, Lower(archname))

---------------------------------------------------------------------------
\* Functions of the knowledge base.

S_sub == <<"s", "u", "b", "_">>
S_main == <<"m", "a", "i", "n">>
S_memcpy == <<"m", "e", "m", "c", "p", "y">>
S_unknown_function == <<"u", "n", "k", "n", "o", "w", "n", "_",
                        "f", "u", "n", "c", "t", "i", "o", "n", "_">>
\* the name nampa gives a function without a name
S_question == <<"?">>

\* func = None: no Function (an address no function has)
NoFunc == [hi |-> -1, lo |-> -1]

\* A Function: a default-named one is called sub_<hex address>.
Function(a, default, simproc, plt, blocks) ==
    [addr |-> a,
     name |-> IF default THEN S_sub \o HexAddr(a) ELSE S_main,
     is_default_name |-> default,
     is_simprocedure |-> simproc,
     is_plt |-> plt,
     from_signature |-> None,
     block_addrs_set |-> blocks]

\* One basic block [addr, size].
Block(a, n) == [addr |-> a, size |-> n]

\* The entry addresses of the model: an even one, and an odd (Thumb) one
\* reached from the first at offset 5, and at offset 4 by the Thumb retry.
FuncAddrs == { Addr(0, 16), Addr(0, 21) }

\* The functions an address may hold: every combination of the three flags
\* over two blocks, and an eligible function without any block.
FunctionsAt(a) ==
    { Function(a, d, s, p, { Block(a, 4), Block(AddrPlus(a, 8), 6) }) :
        d \in BOOLEAN, s \in BOOLEAN, p \in BOOLEAN }
    \cup { Function(a, TRUE, FALSE, FALSE, {}) }

\* The function stores of the model.
Stores ==
    UNION { { fs \in [as -> UNION { FunctionsAt(a) : a \in as }] :
                \A a \in as : fs[a].addr = a } : as \in SUBSET FuncAddrs }

\* What the matcher may report: FlirtFunction(offset, name).
Offsets == { 0, 4, 5 }
FlirtFunctions == [offset : Offsets, name : { S_question, S_memcpy }]

---------------------------------------------------------------------------
\* _on_func_matched (lines 105-134)

\* self.kb.functions.get_by_addr: the function whose entry is addr, or KeyError
get_by_addr(fs, addr) == IF addr \in DOMAIN fs THEN addr ELSE NoFunc

\* ResolveFunc without the retry of lines 114-118.
ResolveFuncNoThumb(fs, f, base_addr, flirt_func, is_arm) ==
    LET func_addr == AddrPlus(base_addr, flirt_func.offset)
    IN  IF func_addr = base_addr THEN f ELSE get_by_addr(fs, func_addr)

\* ResolveFunc retrying at addr + 1 on every target, not only on ARM.
ResolveFuncAnyArch(fs, f, base_addr, flirt_func, is_arm) ==
    LET func_addr == AddrPlus(base_addr, flirt_func.offset)
    IN  IF func_addr = base_addr THEN f
        ELSE IF get_by_addr(fs, func_addr) # NoFunc THEN get_by_addr(fs, func_addr)
        ELSE get_by_addr(fs, AddrPlus(func_addr, 1))

\* lines 106-123: the function a hit is about
ResolveFunc(fs, f, base_addr, flirt_func, is_arm) ==
    LET func_addr == AddrPlus(base_addr, flirt_func.offset)
    IN  IF func_addr = base_addr THEN f
        ELSE IF get_by_addr(fs, func_addr) # NoFunc THEN get_by_addr(fs, func_addr)
        ELSE IF is_arm THEN get_by_addr(fs, AddrPlus(func_addr, 1))
        ELSE NoFunc

\* NewName formatting the masked address the scan started at.
NewNameMasked(fn, flirt_func) ==
    IF flirt_func.name # S_question THEN flirt_func.name
    ELSE S_unknown_function \o HexAddr(MaskThumb(fn.addr))

\* lines 129-132: the name given to the function fn
NewName(fn, flirt_func) ==
    IF flirt_func.name # S_question THEN flirt_func.name
    ELSE S_unknown_function \o HexAddr(fn.addr)

\* Renamed without the test of line 125: a named function is renamed too.
RenamedAlways(fn, flirt_func) ==
    [fn EXCEPT !.name = NewName(fn, flirt_func),
               !.is_default_name = FALSE,
               !.from_signature = "flirt"]

\* Renamed without line 133: the placeholder flag stays set.
RenamedKeepsFlag(fn, flirt_func) ==
    IF fn.is_default_name
    THEN [fn EXCEPT !.name = NewName(fn, flirt_func), !.from_signature = "flirt"]
    ELSE fn

\* lines 125-134: the function fn after the hit
Renamed(fn, flirt_func) ==
    IF fn.is_default_name
    THEN [fn EXCEPT !.name = NewName(fn, flirt_func),
                    !.is_default_name = FALSE,
                    !.from_signature = "flirt"]
    ELSE fn

\* on_func_matched renaming the scanned function as well as the resolved one.
on_func_matchedBoth(fs, f, base_addr, flirt_func, is_arm) ==
    LET r == ResolveFunc(fs, f, base_addr, flirt_func, is_arm)
        gs == [fs EXCEPT ![f] = Renamed(fs[f], flirt_func)]
    IN  IF r = NoFunc THEN gs ELSE [gs EXCEPT ![r] = Renamed(gs[r], flirt_func)]

\* the function store after _on_func_matched(func, base_addr, flirt_func)
on_func_matched(fs, f, base_addr, flirt_func, is_arm) ==
    LET r == ResolveFunc(fs, f, base_addr, flirt_func, is_arm)
    IN  IF r = NoFunc THEN fs ELSE [fs EXCEPT ![r] = Renamed(fs[r], flirt_func)]

---------------------------------------------------------------------------
\* _match_all_against_one_signature (lines 77-103)

\* Eligible without the test of lines 85-87: named functions are scanned too.
EligibleAnyName(fn) == ~(fn.is_simprocedure \/ fn.is_plt)

\* lines 83-87: whether the loop scans the function
Eligible(fn) == ~(fn.is_simprocedure \/ fn.is_plt) /\ fn.is_default_name

\* lines 89-91: the base address handed to the matcher
ScanStart(fn, is_arm) == IF is_arm THEN MaskThumb(fn.addr) ELSE fn.addr

\* Whether address a is below address b.
AddrLess(a, b) == a.hi < b.hi \/ (a.hi = b.hi /\ a.lo < b.lo)

\* line 93: max(func.block_addrs_set), the address of the highest block
MaxBlockAddr(fn) ==
    (CHOOSE b \in fn.block_addrs_set :
        \A c \in fn.block_addrs_set : ~AddrLess(b.addr, c.addr)).addr

\* line 94: func.get_block(addr).size
BlockSize(fn, a) == (CHOOSE b \in fn.block_addrs_set : b.addr = a).size

\* lines 93-98: the end of the function's highest block
ScanEnd(fn, is_arm) ==
    LET max_block_addr == MaxBlockAddr(fn)
        end == AddrPlus(max_block_addr, BlockSize(fn, max_block_addr))
    IN  IF is_arm THEN MaskThumb(end) ELSE end

\* line 101: the 0x100 bytes loaded past the end
Pad == 256

\* line 101: end - start + 0x100, a number of bytes in the form of an address
\* (negative when hi < 0)
LoadSize(start, end) == Norm(end.hi - start.hi, end.lo - start.lo + Pad)

\* no memory.load request (no match_function call is going on)
NoLoad == [addr |-> NoFunc, size |-> NoFunc]

\* line 101: self.project.loader.memory.load(start, end - start + 0x100)
MemoryLoad(fn, is_arm) ==
    [addr |-> ScanStart(fn, is_arm),
     size |-> LoadSize(ScanStart(fn, is_arm), ScanEnd(fn, is_arm))]

\* Release of a file opened without the with statement: it stays open.
ReleaseLeaks(h, path) == h

\* the with statement of line 79 leaving its block: the file is closed
Release(h, path) == h \ {path}

CurSig == signatures[sig_idx]
Key == <<CurSig.sig_path, func>>

---------------------------------------------------------------------------
\* The run.

SigArgs ==
    { [kind |-> "None", value |-> None],
      [kind |-> "str", value |-> "user.sig"],
      [kind |-> "FlirtSignature",
       value |-> FlirtSignature(S_x86, S_linux, S_zlib, "zlib_x86.sig", None)] }

\* bool(sig) at line 34
Truthy(s) == s.kind = "FlirtSignature" \/ (s.kind = "str" /\ s.value # "")

\* SyntheticSignature with the architecture and the OS exchanged.
SyntheticSignatureSwapped(path, archname, osname) ==
    FlirtSignature(Lower(osname), Lower(archname), S_Temporary, path, None)

\* lines 37-38: the signature made for a file path
SyntheticSignature(path, archname, osname) ==
    FlirtSignature(Lower(archname), Lower(osname), S_Temporary, path, None)

\* CatalogLoaded without the test of line 43.
CatalogLoadedAlways(by_arch) == TRUE

\* line 43: bool(FLIRT_SIGNATURES_BY_ARCH)
CatalogLoaded(by_arch) == DOMAIN by_arch # {}

Init ==
    /\ arch \in { S_X86, S_ARMEL }
    /\ simos = S_Linux
    /\ sig \in SigArgs
    /\ \E c \in Catalogs :
          /\ FLIRT_SIGNATURES_BY_ARCH = c.by_arch
          /\ STRING_TO_LIBRARIES = c.strings
          /\ LIBRARY_TO_SIGNATURES = c.libs
    /\ mem_regions \in RegionLists
    /\ functions \in Stores
    /\ signatures = Unset
    /\ pc = "start"
    /\ error = "none"
    /\ sig_idx = 0
    /\ handle = {}
    /\ todo = {}
    /\ func = NoFunc
    /\ matcher = EmptyDict
    /\ nhits = 0
    /\ run = 1
    /\ before = functions
    /\ find_hits_called = FALSE
    /\ sigfiles = EmptyDict
    /\ pos = 0
    /\ func_bytes = NoLoad
    /\ prev_signatures = Unset

Env == <<arch, simos, sig, FLIRT_SIGNATURES_BY_ARCH, STRING_TO_LIBRARIES,
         LIBRARY_TO_SIGNATURES, mem_regions>>

\* lines 34-40, sig a non-empty path: one synthetic signature
ConstructFromPath ==
    /\ pc = "start"
    /\ Truthy(sig) /\ sig.kind = "str"
    /\ signatures' = << SyntheticSignature(sig.value, arch, simos) >>
    /\ pc' = "loop"
    /\ UNCHANGED <<Env, func_bytes, prev_signatures,
                   functions, error, sig_idx, handle, todo, func, matcher,
                   nhits, run, before, find_hits_called, sigfiles, pos>>

\* lines 34-40, sig a FlirtSignature: line 40 is inside the isinstance branch
ConstructFromObject ==
    /\ pc = "start"
    /\ Truthy(sig) /\ sig.kind # "str"
    /\ pc' = "loop"
    /\ UNCHANGED <<Env, func_bytes, prev_signatures,
                   functions, signatures, error, sig_idx, handle, todo, func,
                   matcher, nhits, run, before, find_hits_called, sigfiles, pos>>

\* lines 42-45: no signature given and no catalog loaded
ConstructNoCatalog ==
    /\ pc = "start"
    /\ ~Truthy(sig)
    /\ ~CatalogLoaded(FLIRT_SIGNATURES_BY_ARCH)
    /\ pc' = "error"
    /\ error' = "RuntimeError"
    /\ UNCHANGED <<Env, func_bytes, prev_signatures,
                   functions, signatures, sig_idx, handle, todo, func, matcher,
                   nhits, run, before, find_hits_called, sigfiles, pos>>

\* lines 42-53: no signature given, the signatures are chosen from the strings
ConstructHeuristic ==
    /\ pc = "start"
    /\ ~Truthy(sig)
    /\ CatalogLoaded(FLIRT_SIGNATURES_BY_ARCH)
    /\ \E order \in SetOrders :
          signatures' = find_hits_by_strings(mem_regions, STRING_TO_LIBRARIES,
                                             LIBRARY_TO_SIGNATURES, arch, order)
    /\ find_hits_called' = TRUE
    /\ pc' = "loop"
    /\ UNCHANGED <<Env, func_bytes, prev_signatures,
                   functions, error, sig_idx, handle, todo, func, matcher,
                   nhits, run, before, sigfiles, pos>>

\* line 57: self.signatures was never assigned
SignaturesUnset ==
    /\ pc = "loop"
    /\ signatures = Unset
    /\ pc' = "error"
    /\ error' = "AttributeError"
    /\ UNCHANGED <<Env, func_bytes, prev_signatures,
                   functions, signatures, sig_idx, handle, todo, func, matcher,
                   nhits, run, before, find_hits_called, sigfiles, pos>>

\* line 57: the loop over the signatures is over
RunCompletes ==
    /\ pc = "loop"
    /\ signatures # Unset
    /\ sig_idx = Len(signatures)
    /\ pc' = "done"
    /\ UNCHANGED <<Env, func_bytes, prev_signatures,
                   functions, signatures, error, sig_idx, handle, todo, func,
                   matcher, nhits, run, before, find_hits_called, sigfiles, pos>>

\* What a signature file is found to be, the same every time it is opened.
FileIs(path, what) ==
    /\ Get(sigfiles, path, what) = what
    /\ sigfiles' = (path :> what) @@ sigfiles

\* lines 57-79: the next signature is taken and its file opened
OpenSignature ==
    /\ pc = "loop"
    /\ signatures # Unset
    /\ sig_idx < Len(signatures)
    /\ sig_idx' = sig_idx + 1
    /\ LET path == signatures[sig_idx + 1].sig_path
       IN  \/ /\ \/ FileIs(path, "ok")
                 \/ FileIs(path, "malformed")
              /\ handle' = handle \cup {path}
              /\ pc' = "parse"
              /\ error' = error
           \/ /\ FileIs(path, "unreadable")
              /\ handle' = handle
              /\ pc' = "error"
              /\ error' = "OSError"
    /\ UNCHANGED <<Env, func_bytes, prev_signatures,
                   functions, signatures, todo, func, matcher, nhits, run,
                   before, find_hits_called, pos>>

\* line 80: nampa.parse_flirt_file returns, or raises and the file is closed
ParseFlirtFile ==
    /\ pc = "parse"
    /\ \/ /\ sigfiles[CurSig.sig_path] = "ok"
          /\ pc' = "scan"
          /\ todo' = DOMAIN functions
          /\ UNCHANGED <<handle, error>>
       \/ /\ sigfiles[CurSig.sig_path] = "malformed"
          /\ handle' = Release(handle, CurSig.sig_path)
          /\ pc' = "error"
          /\ error' = "ParseError"
          /\ todo' = todo
    /\ UNCHANGED <<Env, func_bytes, prev_signatures,
                   functions, signatures, sig_idx, func, matcher, nhits, run,
                   before, find_hits_called, sigfiles, pos>>

\* lines 81-102: the loop takes a function; it is skipped, or its bytes are
\* loaded and the matcher is called; max() of no block raises ValueError
ScanFunction ==
    /\ pc = "scan"
    /\ \E f \in todo :
          /\ todo' = todo \ {f}
          /\ \/ /\ ~Eligible(functions[f])
                /\ UNCHANGED <<pc, error, handle, func, func_bytes>>
             \/ /\ Eligible(functions[f])
                /\ functions[f].block_addrs_set = {}
                /\ handle' = Release(handle, CurSig.sig_path)
                /\ pc' = "error"
                /\ error' = "ValueError"
                /\ UNCHANGED <<func, func_bytes>>
             \/ /\ Eligible(functions[f])
                /\ functions[f].block_addrs_set # {}
                /\ func_bytes' = MemoryLoad(functions[f], is_arm_arch(arch))
                /\ pc' = "match"
                /\ func' = f
                /\ UNCHANGED <<error, handle>>
    /\ pos' = 0
    /\ UNCHANGED <<Env, prev_signatures, functions, signatures, sig_idx, matcher,
                   nhits, run, before, find_hits_called, sigfiles>>

\* What the matcher has reported for the function under the signature.
Reported == Get(matcher, Key, [hits |-> <<>>, complete |-> FALSE])

\* The hit the matcher reported last in the current call.
LastHit == Reported.hits[pos]

\* lines 103-134: the matcher reports a hit and _on_func_matched handles it. The
\* matcher is deterministic: the same file and function give the same hits.
OnFuncMatched ==
    /\ pc = "match"
    /\ \E flirt_func \in FlirtFunctions :
          /\ IF Reported.complete
             THEN /\ pos < Len(Reported.hits)
                  /\ flirt_func = Reported.hits[pos + 1]
                  /\ UNCHANGED <<matcher, nhits>>
             ELSE /\ nhits < MaxHits
                  /\ nhits' = nhits + 1
                  /\ matcher' = (Key :> [hits |-> Append(Reported.hits, flirt_func),
                                         complete |-> FALSE]) @@ matcher
          /\ functions' = on_func_matched(functions, func,
                                          ScanStart(functions[func], is_arm_arch(arch)),
                                          flirt_func, is_arm_arch(arch))
    /\ pos' = pos + 1
    /\ UNCHANGED <<Env, func_bytes, prev_signatures,
                   signatures, pc, error, sig_idx, handle, todo, func, run,
                   before, find_hits_called, sigfiles>>

\* line 103: nampa.match_function returns
MatchFunctionReturns ==
    /\ pc = "match"
    /\ Reported.complete => pos = Len(Reported.hits)
    /\ matcher' = (Key :> [hits |-> Reported.hits, complete |-> TRUE]) @@ matcher
    /\ pc' = "scan"
    /\ func' = NoFunc
    /\ func_bytes' = NoLoad
    /\ UNCHANGED <<Env, prev_signatures,
                   functions, signatures, error, sig_idx, handle, todo, nhits,
                   run, before, find_hits_called, sigfiles, pos>>

\* lines 79-81: every function was taken, the with block ends
CloseSignature ==
    /\ pc = "scan"
    /\ todo = {}
    /\ handle' = Release(handle, CurSig.sig_path)
    /\ pc' = "loop"
    /\ UNCHANGED <<Env, func_bytes, prev_signatures,
                   functions, signatures, error, sig_idx, todo, func, matcher,
                   nhits, run, before, find_hits_called, sigfiles, pos>>

\* The analysis is run a second time on the store the first run left, with
\* the same argument, catalog, memory, signature files and matcher, by the
\* same interpreter or by another one.
Rerun ==
    /\ pc = "done"
    /\ run = 1
    /\ run' = 2
    /\ before' = functions
    /\ prev_signatures' = signatures
    /\ signatures' = Unset
    /\ pc' = "start"
    /\ sig_idx' = 0
    /\ find_hits_called' = FALSE
    /\ UNCHANGED <<Env, func_bytes,
                   functions, error, handle, todo, func, matcher, nhits,
                   sigfiles, pos>>

Next ==
    \/ ConstructFromPath
    \/ ConstructFromObject
    \/ ConstructNoCatalog
    \/ ConstructHeuristic
    \/ SignaturesUnset
    \/ RunCompletes
    \/ OpenSignature
    \/ ParseFlirtFile
    \/ ScanFunction
    \/ OnFuncMatched
    \/ MatchFunctionReturns
    \/ CloseSignature
    \/ Rerun

Spec == Init /\ [][Next]_vars

---------------------------------------------------------------------------
\* The selection runs: heuristic mode over many catalogs and segment buffers,
\* on a knowledge base without functions.

SeqsUpTo(S, n) == UNION { [1..k -> S] : k \in 0..n }

\* lines 49-51: the buffers of the segments with bytes, none of them empty
SelBuffers == { <<"x">>, T_inf, S_libpng }
SelRegionLists == SeqsUpTo(SelBuffers, MaxRegions)

\* STRING_TO_LIBRARIES: each token once, with the set of its libraries
SelStrings ==
    { d \in SeqsUpTo([token : {T_inf, T_png, T_lib},
                      libs : (SUBSET {S_zlib, S_libpng}) \ {{}}], MaxTokens) :
        \A i, j \in DOMAIN d : d[i].token = d[j].token => i = j }

SelCatalogs ==
    { [by_arch |-> c.by_arch, strings |-> d, libs |-> c.libs] :
        c \in { k \in Catalogs : CatalogLoaded(k.by_arch) }, d \in SelStrings }
    \cup { k \in Catalogs : ~CatalogLoaded(k.by_arch) }

InitSel ==
    /\ arch \in { S_X86, S_ARMEL }
    /\ simos = S_Linux
    /\ sig = [kind |-> "None", value |-> None]
    /\ \E c \in SelCatalogs :
          /\ FLIRT_SIGNATURES_BY_ARCH = c.by_arch
          /\ STRING_TO_LIBRARIES = c.strings
          /\ LIBRARY_TO_SIGNATURES = c.libs
    /\ mem_regions \in SelRegionLists
    /\ functions = EmptyDict
    /\ signatures = Unset
    /\ pc = "start"
    /\ error = "none"
    /\ sig_idx = 0
    /\ handle = {}
    /\ todo = {}
    /\ func = NoFunc
    /\ matcher = EmptyDict
    /\ nhits = 0
    /\ run = 1
    /\ before = functions
    /\ find_hits_called = FALSE
    /\ sigfiles = EmptyDict
    /\ pos = 0
    /\ func_bytes = NoLoad
    /\ prev_signatures = Unset

NextSel ==
    \/ ConstructNoCatalog
    \/ ConstructHeuristic
    \/ RunCompletes
    \/ OpenSignature
    \/ ParseFlirtFile
    \/ CloseSignature
    \/ Rerun

SpecSel == InitSel /\ [][NextSel]_vars

---------------------------------------------------------------------------
\* The scan runs: one signature file given by its path, over knowledge bases
\* of one function, with entry addresses and blocks up to the end of a 32-bit
\* address space.

\* 2^32, the end of the address space of the 32-bit targets
AddressSpaceEnd == Addr(65536, 0)

\* Entries: 0x10, 0x15 (Thumb), 0x1000, and 0xfffffff0, 16 bytes under the end.
WinAddrs == { Addr(0, 16), Addr(0, 21), Addr(0, 4096), Addr(65535, 65520) }

\* The blocks a function at a may have: its entry block alone, of 0, 4 or 16
\* bytes, or with a higher block; or no block at all.
WinBlockSets(a) ==
    { bs \in { {}, { Block(a, 0) }, { Block(a, 4) }, { Block(a, 16) },
               { Block(a, 4), Block(AddrPlus(a, 8), 6) },
               { Block(a, 16), Block(AddrPlus(a, 32), 16) } } :
        \A b \in bs : ~AddrLess(AddressSpaceEnd, AddrPlus(b.addr, b.size)) }

WinFunctions ==
    UNION { { Function(a, d, FALSE, FALSE, bs) : d \in BOOLEAN, bs \in WinBlockSets(a) } :
            a \in WinAddrs }

WinStores == { (fn.addr :> fn) : fn \in WinFunctions }

InitWin ==
    /\ arch \in { S_X86, S_ARMEL }
    /\ simos = S_Linux
    /\ sig = [kind |-> "str", value |-> "user.sig"]
    /\ \E c \in { k \in Catalogs : ~CatalogLoaded(k.by_arch) } :
          /\ FLIRT_SIGNATURES_BY_ARCH = c.by_arch
          /\ STRING_TO_LIBRARIES = c.strings
          /\ LIBRARY_TO_SIGNATURES = c.libs
    /\ mem_regions \in RegionLists
    /\ functions \in WinStores
    /\ signatures = Unset
    /\ pc = "start"
    /\ error = "none"
    /\ sig_idx = 0
    /\ handle = {}
    /\ todo = {}
    /\ func = NoFunc
    /\ matcher = EmptyDict
    /\ nhits = 0
    /\ run = 1
    /\ before = functions
    /\ find_hits_called = FALSE
    /\ sigfiles = EmptyDict
    /\ pos = 0
    /\ func_bytes = NoLoad
    /\ prev_signatures = Unset

NextWin ==
    \/ ConstructFromPath
    \/ RunCompletes
    \/ OpenSignature
    \/ ParseFlirtFile
    \/ ScanFunction
    \/ OnFuncMatched
    \/ MatchFunctionReturns
    \/ CloseSignature

SpecWin == InitWin /\ [][NextWin]_vars

---------------------------------------------------------------------------
\* Properties.

\* name, placeholder flag and provenance of a function
Naming(fn) == <<fn.name, fn.is_default_name, fn.from_signature>>

\* the base address of the current match_function call
Base == ScanStart(functions[func], is_arm_arch(arch))

\* the function the last reported hit is about
LastResolved == ResolveFunc(functions, func, Base, LastHit, is_arm_arch(arch))

\* C1 (no overwrite): a function that had a non-placeholder name when the run
\* started keeps its name and its provenance in every state of the run,
\* whatever the signatures and the hits, at offset 0 or not.
C1_NoOverwrite ==
    \A a \in DOMAIN before :
        ~before[a].is_default_name =>
            /\ a \in DOMAIN functions
            /\ functions[a].name = before[a].name
            /\ functions[a].from_signature = before[a].from_signature

\* C1 witness: during the scan of one function, a hit at a non-zero offset
\* was handled that resolves to another function, named before the run.
C1_Witness ==
    /\ pc = "match" /\ pos >= 1
    /\ LastHit.offset # 0
    /\ LastResolved # NoFunc /\ LastResolved # func
    /\ ~before[LastResolved].is_default_name

\* C2 (eligibility filter), as claimed: no simulated procedure and no PLT stub
\* ever has its name, placeholder flag or provenance changed by a run.
C2_EligibilityFilter ==
    \A a \in DOMAIN before :
        (before[a].is_simprocedure \/ before[a].is_plt) =>
            Naming(functions[a]) = Naming(before[a])

\* C3 (idempotence): in the second run, on the store the completed first run
\* left, with the same matcher, files and signatures, every function keeps the
\* name, placeholder flag and provenance the first run left.
C3_Idempotence ==
    run = 2 => \A a \in DOMAIN functions : Naming(functions[a]) = Naming(before[a])

\* C3 witness: the second run replayed a hit, after a first run that renamed a
\* function.
C3_Witness ==
    /\ run = 2 /\ pc = "match" /\ pos >= 1
    /\ \E a \in DOMAIN functions : functions[a].from_signature = "flirt"

\* C4 (failure isolation), as claimed: a parse failure of one signature does
\* not end the run while signatures that follow it have not been opened.
C4_FailureIsolation ==
    (pc = "error" /\ error = "ParseError") => sig_idx = Len(signatures)

\* C5 (scoped handle): at most one signature file is open; none is open when
\* the run has ended, aborted, or is between two signatures; inside the with
\* block the open file is the current signature's; and a file is only opened
\* when none is open, for the signature next in the list.
C5_HandleScoped ==
    /\ Cardinality(handle) <= 1
    /\ pc \in {"start", "loop", "done", "error"} => handle = {}
    /\ pc \in {"parse", "scan", "match"} => handle = {signatures[sig_idx].sig_path}

C5_OpenedInOrder ==
    (handle' # handle /\ handle' # {}) =>
        /\ handle = {}
        /\ sig_idx' = sig_idx + 1
        /\ handle' = {signatures[sig_idx + 1].sig_path}

C5_ScopedHandle == []C5_HandleScoped /\ [][C5_OpenedInOrder]_vars

\* C5 witness: the second signature's file failed to parse, after the first
\* signature was matched and closed, and no file is left open.
C5_Witness ==
    /\ pc = "error" /\ error = "ParseError" /\ sig_idx = 2 /\ handle = {}

\* C6 (unpopulated catalog): with no signature given and no catalog loaded,
\* the run is at its start or has ended in the configuration error; no
\* signature list was made, no signature was taken or opened, no function was
\* handed to the matcher and the function store is the one the run started on.
C6_UnpopulatedCatalog ==
    (~Truthy(sig) /\ DOMAIN FLIRT_SIGNATURES_BY_ARCH = {}) =>
        /\ pc \in {"start", "error"}
        /\ pc = "error" => error = "RuntimeError"
        /\ signatures = Unset /\ ~find_hits_called
        /\ sig_idx = 0 /\ handle = {} /\ sigfiles = EmptyDict
        /\ func = NoFunc /\ matcher = EmptyDict /\ nhits = 0
        /\ functions = before

\* C6 witness: the configuration error was raised with an eligible function
\* in the store.
C6_Witness ==
    /\ pc = "error" /\ error = "RuntimeError"
    /\ sig.kind = "None"
    /\ \E a \in DOMAIN functions : Eligible(functions[a])

\* C7 (file path given): once __init__ has chosen the signatures, the list is
\* the one synthetic signature: library Temporary, the given path, the target's
\* architecture and OS names in lower case; the configuration error is not
\* raised, whatever the catalog, and _find_hits_by_strings has not run.
C7_FilePathMode ==
    (sig.kind = "str" /\ sig.value # "" /\ pc # "start") =>
        /\ signatures = << [arch |-> Lower(arch), platform |-> Lower(simos),
                            sig_name |-> S_Temporary, sig_path |-> sig.value,
                            unique_strings |-> None] >>
        /\ signatures[1].arch \in {S_x86, S_armel}
        /\ signatures[1].platform = S_linux
        /\ error # "RuntimeError"
        /\ ~find_hits_called

\* C7 witness: a run on a file path completed with no catalog loaded and
\* renamed a function.
C7_Witness ==
    /\ sig.kind = "str" /\ pc = "done"
    /\ DOMAIN FLIRT_SIGNATURES_BY_ARCH = {}
    /\ \E a \in DOMAIN functions : functions[a].from_signature = "flirt"

\* C8 (either form of signature), as claimed: given a FlirtSignature object,
\* the analysis applies exactly that signature, as it does for a path, and
\* does not fail for want of a signature list.
C8_ObjectForm ==
    (sig.kind = "FlirtSignature" /\ pc # "start") =>
        /\ signatures # Unset
        /\ signatures # Unset => signatures = << sig.value >>
        /\ error # "AttributeError"

\* C9 (Thumb retry symmetry): on an ARM target, when a hit's matched address
\* addr # base has no function and addr + 1 has one, handling the hit leaves
\* the store that handling the same hit at addr + 1 gives, and the function at
\* addr + 1 is no longer placeholder-named.
C9_ThumbStep ==
    (pc = "match" /\ pos' = pos + 1 /\ is_arm_arch(arch)) =>
        LET h == LastHit'
            addr == AddrPlus(Base, h.offset)
        IN  (/\ addr # Base
             /\ get_by_addr(functions, addr) = NoFunc
             /\ get_by_addr(functions, AddrPlus(addr, 1)) # NoFunc) =>
                /\ functions' = on_func_matched(functions, func, Base,
                                    [offset |-> h.offset + 1, name |-> h.name], TRUE)
                /\ ~functions'[AddrPlus(addr, 1)].is_default_name

C9_ThumbRetrySymmetry == [][C9_ThumbStep]_vars

\* C9 witness: on ARM a hit at base + 4 = 0x14, where no function is, renamed
\* the placeholder-named function at 0x15.
C9_Witness ==
    /\ is_arm_arch(arch) /\ pc = "match" /\ pos >= 1
    /\ LastHit.offset = 4
    /\ func = Addr(0, 16)
    /\ Addr(0, 21) \in DOMAIN functions
    /\ before[Addr(0, 21)].is_default_name
    /\ functions[Addr(0, 21)].from_signature = "flirt"

\* The value of a lower-case hexadecimal digit.
DigitValue(c) == CHOOSE d \in 0..15 : HexDigit(d) = c

IsLowerHex(ds) ==
    /\ ds # <<>>
    /\ \A k \in 1..Len(ds) : \E d \in 0..15 : HexDigit(d) = ds[k]
    /\ Len(ds) > 1 => ds[1] # "0"

RECURSIVE NatOfHex(_)
NatOfHex(ds) ==
    IF ds = <<>> THEN 0
    ELSE NatOfHex(SubSeq(ds, 1, Len(ds) - 1)) * 16 + DigitValue(ds[Len(ds)])

\* The address a hexadecimal numeral denotes: its last 4 digits are the low word.
AddrOfHex(ds) ==
    IF Len(ds) <= 4 THEN Addr(0, NatOfHex(ds))
    ELSE Addr(NatOfHex(SubSeq(ds, 1, Len(ds) - 4)),
              NatOfHex(SubSeq(ds, Len(ds) - 3, Len(ds))))

\* n is the fixed prefix followed by the lower-case hexadecimal of address a
IsSynthesized(n, a) ==
    /\ StartsWith(n, S_unknown_function)
    /\ LET ds == SubSeq(n, Len(S_unknown_function) + 1, Len(n))
       IN  IsLowerHex(ds) /\ AddrOfHex(ds) = a

\* C10 (naming rule): a step that clears the placeholder flag of a function
\* names it after the hit just reported: the candidate name verbatim, or, for
\* the sentinel "?", the prefix and the lower-case hexadecimal of the function's
\* own address. Names synthesized for distinct functions are distinct.
C10_NameAssigned ==
    \A a \in DOMAIN functions :
        (functions[a].is_default_name /\ ~functions'[a].is_default_name) =>
            LET h == LastHit'
            IN  /\ pc = "match" /\ pos' = pos + 1
                /\ IF h.name = S_question
                   THEN IsSynthesized(functions'[a].name, functions[a].addr)
                   ELSE functions'[a].name = h.name

C10_SynthesizedDistinct ==
    \A a, b \in DOMAIN functions :
        (/\ a # b
         /\ functions[a].from_signature = "flirt"
         /\ functions[b].from_signature = "flirt"
         /\ StartsWith(functions[a].name, S_unknown_function)
         /\ StartsWith(functions[b].name, S_unknown_function)) =>
            functions[a].name # functions[b].name

C10_NamingRule == []C10_SynthesizedDistinct /\ [][C10_NameAssigned]_vars

\* C10 witness: on ARM a sentinel hit at matched address 0x14, from the scan
\* based at 0x10, named the function at 0x15 unknown_function_15.
C10_Witness ==
    /\ is_arm_arch(arch) /\ pc = "match" /\ pos >= 1
    /\ LastHit = [offset |-> 4, name |-> S_question]
    /\ Addr(0, 21) \in DOMAIN functions
    /\ before[Addr(0, 21)].is_default_name
    /\ functions[Addr(0, 21)].name = S_unknown_function \o <<"1", "5">>

\* the functions with a placeholder name
Placeholders(fs) == { a \in DOMAIN fs : fs[a].is_default_name }

\* C20 (flag and provenance consistency): in every state, a function that the
\* current run tagged as named from a signature has its placeholder flag
\* cleared and a name that is not a placeholder name; no step sets again a
\* placeholder flag that is cleared, and no step makes the placeholder-named
\* functions more numerous.
C20_State ==
    \A a \in DOMAIN functions :
        (functions[a].from_signature = "flirt" /\ before[a].from_signature # "flirt") =>
            /\ ~functions[a].is_default_name
            /\ functions[a].name # before[a].name
            /\ ~StartsWith(functions[a].name, S_sub)

C20_Step ==
    /\ \A a \in DOMAIN functions :
          ~functions[a].is_default_name => ~functions'[a].is_default_name
    /\ Placeholders(functions') \subseteq Placeholders(functions)
    /\ Cardinality(Placeholders(functions')) <= Cardinality(Placeholders(functions))

C20_FlagConsistency == []C20_State /\ [][C20_Step]_vars

\* C20 witness: after the first hit of a first run, a function that had a
\* placeholder name is tagged, named and no longer flagged.
C20_Witness ==
    /\ run = 1 /\ pc = "match" /\ pos = 1 /\ nhits = 1
    /\ \E a \in DOMAIN functions :
          /\ before[a].is_default_name
          /\ functions[a].from_signature = "flirt"
          /\ ~functions[a].is_default_name

---------------------------------------------------------------------------
\* The selection (heuristic mode).

\* the libraries some token of which occurs in some buffer
HitLibs ==
    { lib \in UNION { STRING_TO_LIBRARIES[i].libs : i \in DOMAIN STRING_TO_LIBRARIES } :
        \E i \in DOMAIN STRING_TO_LIBRARIES, j \in DOMAIN mem_regions :
            /\ lib \in STRING_TO_LIBRARIES[i].libs
            /\ Contains(mem_regions[j], STRING_TO_LIBRARIES[i].token) }

\* the signatures of a library made for the lower-cased target architecture
\* name, in catalog order
TargetSignatures(lib) ==
    SelectSeq(Get(LIBRARY_TO_SIGNATURES, lib, <<>>), LAMBDA s : s.arch = Lower(arch))

\* the orders a set of libraries can be put in
Orderings(libs) ==
    { p \in [1..Cardinality(libs) -> libs] : \A i, j \in DOMAIN p : p[i] = p[j] => i = j }

RECURSIVE Flatten(_)
Flatten(seqs) == IF seqs = <<>> THEN <<>> ELSE Head(seqs) \o Flatten(Tail(seqs))

\* the target-architecture signatures of the libraries p, library by library
SignaturesInOrder(p) == Flatten([k \in DOMAIN p |-> TargetSignatures(p[k])])

C11_WitnessEmpty ==
    /\ find_hits_called /\ pc = "loop"
    /\ mem_regions # <<>> /\ STRING_TO_LIBRARIES # <<>>
    /\ signatures = <<>>

\* the number of (token, buffer) pairs whose token occurs in the buffer and
\* maps to the library
PairCount(lib) ==
    Cardinality({ ij \in (DOMAIN STRING_TO_LIBRARIES) \X (DOMAIN mem_regions) :
                    /\ lib \in STRING_TO_LIBRARIES[ij[1]].libs
                    /\ Contains(mem_regions[ij[2]], STRING_TO_LIBRARIES[ij[1]].token) })

\* the produced list ranks the hit libraries by their counts, highest first
C12_RankedByCount ==
    find_hits_called =>
        \E p \in Orderings(HitLibs) :
            /\ signatures = SignaturesInOrder(p)
            /\ \A i, j \in DOMAIN p : i < j => PairCount(p[i]) >= PairCount(p[j])

\* C12 (ranking), as claimed: the list produced ranks the hit libraries by the
\* number of (token, buffer) pairs that credit them, highest first, and a run
\* repeated on the same buffers and catalog produces the same list as the run
\* before, ties included.
C12_Ranking ==
    /\ C12_RankedByCount
    /\ (find_hits_called /\ run = 2) => signatures = prev_signatures

\* the signatures in a list
Elements(seq) == { seq[k] : k \in DOMAIN seq }

\* C13 (case-insensitive architecture filter), as claimed: a signature of a
\* library with a hit is in the produced list exactly when its architecture
\* and the target architecture name are the same ignoring letter case.
C13_CaseInsensitiveFilter ==
    find_hits_called =>
        \A lib \in HitLibs :
            \A s \in Elements(Get(LIBRARY_TO_SIGNATURES, lib, <<>>)) :
                s \in Elements(signatures) <=> Lower(s.arch) = Lower(arch)

\* the places (library with a hit, position in its list) of the catalog that
\* hold a target-architecture signature
TargetPlaces ==
    UNION { { <<lib, k>> : k \in { n \in DOMAIN Get(LIBRARY_TO_SIGNATURES, lib, <<>>) :
                                     LIBRARY_TO_SIGNATURES[lib][n].arch = Lower(arch) } } :
            lib \in HitLibs }

---------------------------------------------------------------------------
\* The scan window.

\* a with its lowest bit cleared and every other bit kept
LowBitCleared(a) == [hi |-> a.hi, lo |-> a.lo - (a.lo % 2)]

\* the end of the block of fn with the highest address
HighestBlockEnd(fn) ==
    LET b == CHOOSE x \in fn.block_addrs_set :
                 \A y \in fn.block_addrs_set : y.addr = x.addr \/ AddrLess(y.addr, x.addr)
    IN  AddrPlus(b.addr, b.size)

\* C14 (scan window), as claimed: while the matcher works on a function, its
\* base and the address of the load are the function's address, the load asks
\* for (end - start) + 0x100 bytes with end the end of the function's highest
\* block, on an ARM-family target start and end have exactly their lowest bit
\* cleared, and the length asked for is at least 0x100.
C14_ScanWindow ==
    pc = "match" =>
        LET fn == functions[func]
            arm == is_arm_arch(arch)
            start == IF arm THEN LowBitCleared(fn.addr) ELSE fn.addr
            end == IF arm THEN LowBitCleared(HighestBlockEnd(fn)) ELSE HighestBlockEnd(fn)
        IN  /\ Base = start
            /\ func_bytes.addr = start
            /\ func_bytes.size = Norm(end.hi - start.hi, end.lo - start.lo + 256)
            /\ \/ func_bytes.size.hi > 0
               \/ func_bytes.size.hi = 0 /\ func_bytes.size.lo >= 256

\* the same for the functions that end below the end of the 32-bit space
C14_ScanWindowBelowEnd ==
    (pc = "match" /\ AddrLess(HighestBlockEnd(functions[func]), AddressSpaceEnd))
        => C14_ScanWindow

---------------------------------------------------------------------------
\* The outcome of a run.

\* the functions the hits reported so far resolve to
HitTargets ==
    { r \in DOMAIN functions :
        \E k \in DOMAIN matcher : \E n \in DOMAIN matcher[k].hits :
            r = ResolveFunc(functions, k[2],
                            ScanStart(functions[k[2]], is_arm_arch(arch)),
                            matcher[k].hits[n], is_arm_arch(arch)) }

\* C15 (completeness after a run), as claimed: when a run has completed, every
\* function that was eligible when it started has a non-placeholder name.
C15_Completeness ==
    pc = "done" =>
        \A a \in DOMAIN before : Eligible(before[a]) => ~functions[a].is_default_name

\* C15, amended: when a run has completed, a function that was eligible when
\* it started has a non-placeholder name exactly if a hit resolved to it; an
\* eligible function no hit resolved to keeps its placeholder name, and stays
\* eligible for a later run.
C15_NamedIffHit ==
    pc = "done" =>
        \A a \in DOMAIN before :
            Eligible(before[a]) =>
                /\ ~functions[a].is_default_name <=> a \in HitTargets
                /\ a \notin HitTargets => Eligible(functions[a])

\* C15 witness: a completed first run that renamed one eligible function and
\* left another, which no hit resolved to, with its placeholder name.
C15_Witness ==
    /\ pc = "done" /\ run = 1
    /\ \E a, b \in DOMAIN before :
          /\ Eligible(before[a]) /\ functions[a].from_signature = "flirt"
          /\ Eligible(before[b]) /\ functions[b].is_default_name

\* C16 (rename once, earliest wins): a step changes the name, placeholder flag
\* or provenance of a function only if the function is still placeholder-named
\* and no hit reported before was about it, and names it after the hit just
\* reported, so these fields are set at most once and by the first hit about
\* the function; and the matcher is only given a function that is
\* placeholder-named when the loop reaches it, so a function renamed earlier,
\* by any signature or scan, is never scanned.
C16_Step ==
    /\ \A a \in DOMAIN functions :
          Naming(functions'[a]) # Naming(functions[a]) =>
              /\ functions[a].is_default_name
              /\ a \notin HitTargets
              /\ pc = "match" /\ pos' = pos + 1
              /\ a = ResolveFunc(functions, func, Base, LastHit', is_arm_arch(arch))
              /\ functions'[a].name = NewName(functions[a], LastHit')
              /\ functions'[a].from_signature = "flirt"
    /\ (pc = "scan" /\ pc' = "match") => functions[func'].is_default_name

C16_RenameOnce == [][C16_Step]_vars

\* C16 witness: in a first run a hit was handled about a function that was
\* placeholder-named when the run started and has a name that is not this
\* hit's: an earlier hit named it, and this one was not applied.
C16_Witness ==
    /\ run = 1 /\ pc = "match" /\ pos >= 1
    /\ LastResolved # NoFunc
    /\ before[LastResolved].is_default_name
    /\ functions[LastResolved].from_signature = "flirt"
    /\ functions[LastResolved].name # NewName(before[LastResolved], LastHit)

\* C17 (unresolved hit): when the matcher reports a hit at a non-zero offset
\* whose matched address is no function's entry and, on an ARM-family target,
\* whose address + 1 is none either, handling it changes no function, the
\* scanned function included, raises no error, and leaves the run in the same
\* call of the matcher with the same functions and signatures still to come.
\* On a target that is not ARM-family this holds whatever is at address + 1.
C17_Step ==
    (pc = "match" /\ pos' = pos + 1) =>
        LET h == LastHit'
            addr == AddrPlus(Base, h.offset)
        IN  (/\ addr # Base
             /\ addr \notin DOMAIN functions
             /\ is_arm_arch(arch) => AddrPlus(addr, 1) \notin DOMAIN functions) =>
                /\ functions' = functions
                /\ error' = "none" /\ pc' = "match"
                /\ func' = func /\ todo' = todo
                /\ sig_idx' = sig_idx /\ signatures' = signatures /\ handle' = handle

C17_UnresolvedHit == [][C17_Step]_vars

\* C17 witness: on x86 the only hit so far, at base + 4 = 0x14 from the scan of
\* 0x10, was dropped although 0x15 is the entry of a placeholder-named function.
C17_Witness ==
    /\ ~is_arm_arch(arch) /\ run = 1 /\ pc = "match" /\ pos = 1 /\ nhits = 1
    /\ func = Addr(0, 16) /\ LastHit.offset = 4
    /\ Addr(0, 21) \in DOMAIN functions
    /\ functions[Addr(0, 21)].is_default_name
    /\ functions = before /\ error = "none"

\* C18 (renaming is the only mutation): no step of a run changes the set of
\* functions, a function's address, blocks, stub flag or simulated-procedure
\* flag, the memory bytes or one of the three catalog structures; a function
\* changes only in its name, placeholder flag and provenance, only when a hit
\* is handled, and one handled hit changes at most one function.
C18_Step ==
    /\ DOMAIN functions' = DOMAIN functions
    /\ \A a \in DOMAIN functions :
          /\ functions'[a].addr = functions[a].addr
          /\ functions'[a].block_addrs_set = functions[a].block_addrs_set
          /\ functions'[a].is_simprocedure = functions[a].is_simprocedure
          /\ functions'[a].is_plt = functions[a].is_plt
    /\ mem_regions' = mem_regions
    /\ FLIRT_SIGNATURES_BY_ARCH' = FLIRT_SIGNATURES_BY_ARCH
    /\ STRING_TO_LIBRARIES' = STRING_TO_LIBRARIES
    /\ LIBRARY_TO_SIGNATURES' = LIBRARY_TO_SIGNATURES
    /\ functions' # functions => (pc = "match" /\ pos' = pos + 1)
    /\ Cardinality({ a \in DOMAIN functions : functions'[a] # functions[a] }) <= 1

C18_OnlyRenaming == [][C18_Step]_vars

\* C18 witness: a hit handled during the scan of one function changed another
\* function and left the scanned one as the run found it.
C18_Witness ==
    /\ run = 1 /\ pc = "match" /\ pos >= 1
    /\ LastResolved # NoFunc /\ LastResolved # func
    /\ Naming(functions[LastResolved]) # Naming(before[LastResolved])
    /\ functions[func] = before[func]

=============================================================================
